---------------------------- MODULE Spec2Model ----------------------------
(***************************************************************************)
(* AlienFX command packets (alienfx/core/cmdpacket.py): the encoders       *)
(* make_cmd_*, the decoder pkt_to_string with its registry of handlers,    *)
(* and the colour codec.                                                   *)
(*                                                                         *)
(* Python values are modelled as follows.  A list or tuple object lives in *)
(* `heap` under a reference (its index), so that two names for one object  *)
(* can be told from two equal objects.  An int is an Integer; the bit      *)
(* operators are computed bit by bit on the two's complement form Python   *)
(* defines for them.  A str is a string, built by concatenation.           *)
(***************************************************************************)
EXTENDS Integers, Sequences, FiniteSets, TLC

VARIABLES
    heap,       \* list and tuple objects: reference -> contents
    returned,   \* encoder calls that have returned: [op, args, ref, pkt]
    dirty,      \* references of returned packets their caller has written to
    registry,   \* command_parsers of the codec instance
    ctrlLog,    \* calls the decoder has made on the controller
    thread      \* calls: caller -> [pc, pkt, given, known, cmd, ans, result]

vars == <<heap, returned, dirty, registry, ctrlLog, thread>>

---------------------------------------------------------------------------
(* Bounds of the model *)

ArgSpan == 2        \* integer arguments -ArgSpan..ArgSpan, besides the wide ones
MaxCalls == 2       \* encoder calls in one behaviour of SpecAlias
NumCallers == 2     \* concurrent callers in SpecShare
MaxShortLen == 3    \* wrong-length inputs of lengths 0..MaxShortLen

---------------------------------------------------------------------------
(* Command codes and the packet length *)

CMD_SET_MORPH_COLOUR == 1
CMD_SET_BLINK_COLOUR == 2
CMD_SET_COLOUR == 3
CMD_LOOP_BLOCK_END == 4
CMD_TRANSMIT_EXECUTE == 5
CMD_GET_STATUS == 6
CMD_RESET == 7
CMD_SAVE_NEXT == 8
CMD_SAVE == 9
CMD_SET_SPEED == 14

PACKET_LENGTH == 12

---------------------------------------------------------------------------
(* Python's int and list operators *)

RECURSIVE Pow2(_)
Pow2(n) == IF n = 0 THEN 1 ELSE 2 * Pow2(n - 1)

\* a & m for a mask m >= 0: bit i of the result is set iff it is set in both;
\* a negative a is read in two's complement, whose bit i is (a floor-div 2^i) mod 2.
RECURSIVE BitAnd(_, _)
BitAnd(a, m) ==
    IF m = 0 THEN 0
    ELSE (a % 2) * (m % 2) + 2 * BitAnd(a \div 2, m \div 2)

\* a >> n and a << n
Shr(a, n) == a \div Pow2(n)
Shl(a, n) == a * Pow2(n)

\* s[i], zero-based
Item(s, i) == s[i + 1]

\* s[i:j] for 0 <= i <= j, clamped to the length as Python clamps it
Slice(s, i, j) ==
    LET hi == IF j > Len(s) THEN Len(s) ELSE j
    IN  IF i >= hi THEN <<>> ELSE SubSeq(s, i + 1, hi)

\* s[i] = v
SetItem(s, i, v) == [s EXCEPT ![i + 1] = v]

\* s[i:j] = v: the slice is cut out and v's elements are put in its place
SetSlice(s, i, j, v) == Slice(s, 0, i) \o v \o Slice(s, j, Len(s))

\* NewList as a bug would have it: one list object kept and handed out again
NewListShared(h, contents) ==
    IF \E r \in 1 .. Len(h) : Len(h[r]) = Len(contents)
    THEN LET r == CHOOSE r \in 1 .. Len(h) : Len(h[r]) = Len(contents)
         IN  [heap |-> [h EXCEPT ![r] = contents], ref |-> r]
    ELSE [heap |-> Append(h, contents), ref |-> Len(h) + 1]

\* a list display [...] or a pkt = [] filled by append: a new object
NewList(h, contents) == [heap |-> Append(h, contents), ref |-> Len(h) + 1]

---------------------------------------------------------------------------
(* Python's str(), hex() and the rendering of a list by format() *)

Digit(d) == SubSeq("0123456789abcdef", d + 1, d + 1)

RECURSIVE Digits(_, _)
Digits(n, base) ==
    IF n < base THEN Digit(n) ELSE Digits(n \div base, base) \o Digit(n % base)

\* "{}".format(n) for an int n
Str(n) == IF n < 0 THEN "-" \o Digits(-n, 10) ELSE Digits(n, 10)

\* hex(n)
hex(n) == IF n < 0 THEN "-0x" \o Digits(-n, 16) ELSE "0x" \o Digits(n, 16)

RECURSIVE Joined(_)
Joined(s) ==
    IF Len(s) = 0 THEN ""
    ELSE IF Len(s) = 1 THEN Str(s[1])
    ELSE Str(s[1]) \o ", " \o Joined(Tail(s))

\* "{}".format(pkt) for a list of ints
StrList(s) == "[" \o Joined(s) \o "]"

---------------------------------------------------------------------------
(* The colour codec *)

\* _pack_colour as a bug would have it: the channels appended blue first
_pack_colour_bgr(colour) ==
    <<BitAnd(colour[3], 255), BitAnd(colour[2], 255), BitAnd(colour[1], 255)>>

_pack_colour(colour) ==
    LET red == colour[1]
        green == colour[2]
        blue == colour[3]
    IN  <<BitAnd(red, 255), BitAnd(green, 255), BitAnd(blue, 255)>>

_pack_colour_pair(colour1, colour2) ==
    LET red1 == colour1[1]
        green1 == colour1[2]
        blue1 == colour1[3]
        red2 == colour2[1]
        green2 == colour2[2]
        blue2 == colour2[3]
    IN  <<BitAnd(red1, 255), BitAnd(green1, 255), BitAnd(blue1, 255),
          BitAnd(red2, 255), BitAnd(green2, 255), BitAnd(blue2, 255)>>

_unpack_colour(pkt) ==
    <<hex(BitAnd(Item(pkt, 0), 255)), hex(BitAnd(Item(pkt, 1), 255)),
      hex(BitAnd(Item(pkt, 2), 255))>>

_unpack_colour_pair(pkt) ==
    << <<hex(BitAnd(Item(pkt, 0), 255)), hex(BitAnd(Item(pkt, 1), 255)),
         hex(BitAnd(Item(pkt, 2), 255))>>,
       <<hex(BitAnd(Item(pkt, 3), 255)), hex(BitAnd(Item(pkt, 4), 255)),
         hex(BitAnd(Item(pkt, 5), 255))>> >>

---------------------------------------------------------------------------
(* The encoders.  Each takes the heap and its arguments (a colour is the   *)
(* reference of the caller's tuple) and gives the heap after the call and  *)
(* the reference it returns.                                               *)

\* pkt = [0x02, <opcode>, 0, 0, 0, 0, 0, 0, 0, 0, 0, 0]
Template(opcode) == <<2, opcode, 0, 0, 0, 0, 0, 0, 0, 0, 0, 0>>

\* ZoneBytes as a bug would have it: the low byte first
ZoneBytesLowFirst(zone) ==
    <<BitAnd(zone, 255), Shr(BitAnd(zone, 65280), 8), Shr(BitAnd(zone, 16711680), 16)>>

\* [(zone&0xff0000) >> 16, (zone&0xff00) >> 8, zone & 0xff]
ZoneBytes(zone) ==
    <<Shr(BitAnd(zone, 16711680), 16), Shr(BitAnd(zone, 65280), 8),
      BitAnd(zone, 255)>>

\* [(speed&0xff00) >> 8, speed & 0xff]
SpeedBytes(speed) == <<Shr(BitAnd(speed, 65280), 8), BitAnd(speed, 255)>>

Returning(new, pkt) ==
    [heap |-> [new.heap EXCEPT ![new.ref] = pkt], ref |-> new.ref]

make_cmd_set_morph_colour(h, block, zone, colour1, colour2) ==
    LET new == NewList(h, Template(CMD_SET_MORPH_COLOUR))
        p0 == new.heap[new.ref]
        p1 == SetItem(p0, 2, BitAnd(block, 255))
        p2 == SetSlice(p1, 3, 6, ZoneBytes(zone))
        p3 == SetSlice(p2, 6, 12, _pack_colour_pair(h[colour1], h[colour2]))
    IN  Returning(new, p3)

make_cmd_set_blink_colour(h, block, zone, colour) ==
    LET new == NewList(h, Template(CMD_SET_BLINK_COLOUR))
        p0 == new.heap[new.ref]
        p1 == SetItem(p0, 2, BitAnd(block, 255))
        p2 == SetSlice(p1, 3, 6, ZoneBytes(zone))
        p3 == SetSlice(p2, 6, 9, _pack_colour(h[colour]))
    IN  Returning(new, p3)

make_cmd_set_colour(h, block, zone, colour) ==
    LET new == NewList(h, Template(CMD_SET_COLOUR))
        p0 == new.heap[new.ref]
        p1 == SetItem(p0, 2, BitAnd(block, 255))
        p2 == SetSlice(p1, 3, 6, ZoneBytes(zone))
        p3 == SetSlice(p2, 6, 9, _pack_colour(h[colour]))
    IN  Returning(new, p3)

make_cmd_loop_block_end(h) == NewList(h, Template(CMD_LOOP_BLOCK_END))

make_cmd_transmit_execute(h) == NewList(h, Template(CMD_TRANSMIT_EXECUTE))

make_cmd_get_status(h) == NewList(h, Template(CMD_GET_STATUS))

\* make_cmd_reset as a bug would have it: pkt[2] = reset_type, unmasked
make_cmd_reset_unmasked(h, reset_type) ==
    LET new == NewList(h, Template(CMD_RESET))
        p0 == new.heap[new.ref]
    IN  Returning(new, SetItem(p0, 2, reset_type))

make_cmd_reset(h, reset_type) ==
    LET new == NewList(h, Template(CMD_RESET))
        p0 == new.heap[new.ref]
    IN  Returning(new, SetItem(p0, 2, BitAnd(reset_type, 255)))

make_cmd_save_next(h, state) ==
    LET new == NewList(h, Template(CMD_SAVE_NEXT))
        p0 == new.heap[new.ref]
    IN  Returning(new, SetItem(p0, 2, BitAnd(state, 255)))

make_cmd_save(h) == NewList(h, Template(CMD_SAVE))

\* make_cmd_set_speed as a bug would have it: pkt[3:5] = ..., one byte late
make_cmd_set_speed_late(h, speed) ==
    LET new == NewList(h, Template(CMD_SET_SPEED))
        p0 == new.heap[new.ref]
    IN  Returning(new, SetSlice(p0, 3, 5, SpeedBytes(speed)))

make_cmd_set_speed(h, speed) ==
    LET new == NewList(h, Template(CMD_SET_SPEED))
        p0 == new.heap[new.ref]
    IN  Returning(new, SetSlice(p0, 2, 4, SpeedBytes(speed)))

---------------------------------------------------------------------------
(* The decoder.  The controller is not part of this module: its answer to  *)
(* a lookup is `ans`, any name.  A handler gives the string it returns and *)
(* the lookups it made on the controller.                                  *)

Lookup(method, arg, ans) == <<[method |-> method, arg |-> arg, ans |-> ans]>>

_parse_cmd_set_morph_colour(pkt, ans) ==
    LET pair == _unpack_colour_pair(Slice(pkt, 6, 12))
        c1 == pair[1]
        c2 == pair[2]
    IN  [msg |-> "SET_MORPH_COLOUR: "
                 \o "BLOCK: " \o Str(Item(pkt, 2))
                 \o ", ZONE: " \o ans
                 \o ", (" \o c1[1] \o "," \o c1[2] \o "," \o c1[3] \o ")-("
                 \o c2[1] \o "," \o c2[2] \o "," \o c2[3] \o ")",
         lookups |-> Lookup("get_zone_name", Slice(pkt, 3, 6), ans)]

\* _parse_cmd_set_blink_colour as a bug would have it: the zone taken from pkt[2:5]
_parse_cmd_set_blink_colour_early(pkt, ans) ==
    LET c == _unpack_colour(Slice(pkt, 6, 9))
    IN  [msg |-> "SET_BLINK_COLOUR: "
                 \o "BLOCK: " \o Str(Item(pkt, 2))
                 \o ", ZONE: " \o ans
                 \o ", (" \o c[1] \o "," \o c[2] \o "," \o c[3] \o ")",
         lookups |-> Lookup("get_zone_name", Slice(pkt, 2, 5), ans)]

_parse_cmd_set_blink_colour(pkt, ans) ==
    LET c == _unpack_colour(Slice(pkt, 6, 9))
    IN  [msg |-> "SET_BLINK_COLOUR: "
                 \o "BLOCK: " \o Str(Item(pkt, 2))
                 \o ", ZONE: " \o ans
                 \o ", (" \o c[1] \o "," \o c[2] \o "," \o c[3] \o ")",
         lookups |-> Lookup("get_zone_name", Slice(pkt, 3, 6), ans)]

_parse_cmd_set_colour(pkt, ans) ==
    LET c == _unpack_colour(Slice(pkt, 6, 9))
    IN  [msg |-> "SET_COLOUR: "
                 \o "BLOCK: " \o Str(Item(pkt, 2))
                 \o ", ZONE: " \o ans
                 \o ", (" \o c[1] \o "," \o c[2] \o "," \o c[3] \o ")",
         lookups |-> Lookup("get_zone_name", Slice(pkt, 3, 6), ans)]

_parse_cmd_loop_block_end(pkt, ans) == [msg |-> "LOOP_BLOCK_END", lookups |-> <<>>]

_parse_cmd_transmit_execute(pkt, ans) == [msg |-> "TRANSMIT_EXECUTE", lookups |-> <<>>]

_parse_cmd_get_status(pkt, ans) == [msg |-> "GET_STATUS", lookups |-> <<>>]

_parse_cmd_reset(pkt, ans) ==
    [msg |-> "RESET: " \o ans,
     lookups |-> Lookup("get_reset_type_name", Item(pkt, 2), ans)]

_parse_cmd_save_next(pkt, ans) ==
    [msg |-> "SAVE_NEXT: STATE " \o ans,
     lookups |-> Lookup("get_state_name", Item(pkt, 2), ans)]

_parse_cmd_save(pkt, ans) == [msg |-> "SAVE", lookups |-> <<>>]

\* _parse_cmd_set_speed as a bug would have it: pkt[2] << 4
_parse_cmd_set_speed_nibble(pkt, ans) ==
    [msg |-> "SET_SPEED: " \o hex(Shl(Item(pkt, 2), 4) + Item(pkt, 3)),
     lookups |-> <<>>]

_parse_cmd_set_speed(pkt, ans) ==
    [msg |-> "SET_SPEED: " \o hex(Shl(Item(pkt, 2), 8) + Item(pkt, 3)),
     lookups |-> <<>>]

_parse_cmd_unknown(pkt, ans) ==
    [msg |-> "UNKNOWN COMMAND : " \o Str(Item(pkt, 1)) \o " IN PACKET " \o StrList(pkt),
     lookups |-> <<>>]

\* command_parsers as a bug would have it: the entry of CMD_SET_SPEED left out
command_parsers_short ==
    (CMD_SET_MORPH_COLOUR :> "_parse_cmd_set_morph_colour")
    @@ (CMD_SET_BLINK_COLOUR :> "_parse_cmd_set_blink_colour")
    @@ (CMD_SET_COLOUR :> "_parse_cmd_set_colour")
    @@ (CMD_LOOP_BLOCK_END :> "_parse_cmd_loop_block_end")
    @@ (CMD_TRANSMIT_EXECUTE :> "_parse_cmd_transmit_execute")
    @@ (CMD_GET_STATUS :> "_parse_cmd_get_status")
    @@ (CMD_RESET :> "_parse_cmd_reset")
    @@ (CMD_SAVE_NEXT :> "_parse_cmd_save_next")
    @@ (CMD_SAVE :> "_parse_cmd_save")

\* self.command_parsers as __init__ builds it: command code -> bound method
command_parsers ==
    (CMD_SET_MORPH_COLOUR :> "_parse_cmd_set_morph_colour")
    @@ (CMD_SET_BLINK_COLOUR :> "_parse_cmd_set_blink_colour")
    @@ (CMD_SET_COLOUR :> "_parse_cmd_set_colour")
    @@ (CMD_LOOP_BLOCK_END :> "_parse_cmd_loop_block_end")
    @@ (CMD_TRANSMIT_EXECUTE :> "_parse_cmd_transmit_execute")
    @@ (CMD_GET_STATUS :> "_parse_cmd_get_status")
    @@ (CMD_RESET :> "_parse_cmd_reset")
    @@ (CMD_SAVE_NEXT :> "_parse_cmd_save_next")
    @@ (CMD_SAVE :> "_parse_cmd_save")
    @@ (CMD_SET_SPEED :> "_parse_cmd_set_speed")

\* the call parser(args) of a method taken from the registry
CallParser(parser, pkt, ans) ==
    CASE parser = "_parse_cmd_set_morph_colour" -> _parse_cmd_set_morph_colour(pkt, ans)
      [] parser = "_parse_cmd_set_blink_colour" -> _parse_cmd_set_blink_colour(pkt, ans)
      [] parser = "_parse_cmd_set_colour" -> _parse_cmd_set_colour(pkt, ans)
      [] parser = "_parse_cmd_loop_block_end" -> _parse_cmd_loop_block_end(pkt, ans)
      [] parser = "_parse_cmd_transmit_execute" -> _parse_cmd_transmit_execute(pkt, ans)
      [] parser = "_parse_cmd_get_status" -> _parse_cmd_get_status(pkt, ans)
      [] parser = "_parse_cmd_reset" -> _parse_cmd_reset(pkt, ans)
      [] parser = "_parse_cmd_save_next" -> _parse_cmd_save_next(pkt, ans)
      [] parser = "_parse_cmd_save" -> _parse_cmd_save(pkt, ans)
      [] parser = "_parse_cmd_set_speed" -> _parse_cmd_set_speed(pkt, ans)

\* BadLength as a bug would have it: len(pkt_bytes) < self.PACKET_LENGTH
BadLengthShort(pkt_bytes) == Len(pkt_bytes) < PACKET_LENGTH

\* len(pkt_bytes) != self.PACKET_LENGTH
BadLength(pkt_bytes) == Len(pkt_bytes) # PACKET_LENGTH

BadPacket(pkt_bytes) ==
    [msg |-> "BAD PACKET: " \o StrList(pkt_bytes), lookups |-> <<>>]

\* cmd in list(self.command_parsers.keys())
Known(reg, cmd) == cmd \in DOMAIN reg

pkt_to_string(reg, pkt_bytes, ans) ==
    IF BadLength(pkt_bytes) THEN BadPacket(pkt_bytes)
    ELSE LET cmd == Item(pkt_bytes, 1)
         IN  IF Known(reg, cmd) THEN CallParser(reg[cmd], pkt_bytes, ans)
             ELSE _parse_cmd_unknown(pkt_bytes, ans)

---------------------------------------------------------------------------
(* Inputs *)

Bytes == 0 .. 255

\* arguments inside, at the edge of, and wider than the 8, 16 and 24 bit fields
WideArgs ==
    {255, 256, 257, 300, 511, 65535, 65536, 66051, 16777215, 16777216,
     16843009, -255, -256, -257, -65536, -16777217}

IntArgs == (-ArgSpan .. ArgSpan) \cup WideArgs

\* the callers' colour tuples, which the heap holds from the start
ColourPool ==
    << <<255, 0, 128>>, <<-1, 256, 511>>, <<4660, -256, 3>>, <<0, 0, 0>>,
       <<1, 2, 3>> >>

Colours == 1 .. Len(ColourPool)

\* what the controller may answer
Names == {"Logo", "Keyboard"}

\* the arguments of the calls that SpecAlias and SpecShare interleave
FewArgs == {66051, -1}
FewColours == {1, 2}

Payloads ==
    { <<0, 0, 0, 0, 0, 0, 0, 0, 0, 0>>,
      <<1, 1, 2, 3, 255, 0, 128, 0, 0, 0>>,
      <<255, 255, 255, 255, 255, 255, 255, 255, 255, 255>>,
      <<1, 44, 7, 8, 9, 10, 11, 12, 13, 14>> }

FullPackets ==
    { <<marker, opcode>> \o payload :
        marker \in {2, 0, 255}, opcode \in Bytes, payload \in Payloads }

ShortPackets ==
    UNION { [1 .. n -> {CMD_SET_MORPH_COLOUR, CMD_SET_COLOUR}] : n \in 0 .. MaxShortLen }

\* a well-formed packet of each command with its last byte cut off, or a byte added
NearPackets ==
    { Slice(Template(opcode), 0, PACKET_LENGTH - 1) : opcode \in DOMAIN command_parsers }
    \cup { Template(opcode) \o <<0>> : opcode \in DOMAIN command_parsers }

DecodeInputs ==
    FullPackets \cup ShortPackets \cup NearPackets \cup { <<2, 3, 1, 2, 3>> }

\* the packets the callers of SpecShare decode
ShareInputs ==
    << <<2, 3, 1, 1, 2, 3, 255, 0, 128, 0, 0, 0>>,
       <<2, 7, 4, 0, 0, 0, 0, 0, 0, 0, 0, 0>>,
       <<2, 255, 0, 0, 0, 0, 0, 0, 0, 0, 0, 0>>,
       <<2, 3, 1, 2, 3>> >>

---------------------------------------------------------------------------
(* Encoder calls *)

Return(op, args, out) ==
    /\ heap' = out.heap
    /\ returned' = Append(returned,
           [op |-> op, args |-> args, ref |-> out.ref, pkt |-> out.heap[out.ref]])
    /\ UNCHANGED <<dirty, registry, ctrlLog>>

CallSetMorphColour(block, zone, colour1, colour2) ==
    Return("set_morph_colour",
           [block |-> block, zone |-> zone, colour1 |-> colour1, colour2 |-> colour2],
           make_cmd_set_morph_colour(heap, block, zone, colour1, colour2))

CallSetBlinkColour(block, zone, colour) ==
    Return("set_blink_colour", [block |-> block, zone |-> zone, colour |-> colour],
           make_cmd_set_blink_colour(heap, block, zone, colour))

CallSetColour(block, zone, colour) ==
    Return("set_colour", [block |-> block, zone |-> zone, colour |-> colour],
           make_cmd_set_colour(heap, block, zone, colour))

CallLoopBlockEnd == Return("loop_block_end", <<>>, make_cmd_loop_block_end(heap))

CallTransmitExecute == Return("transmit_execute", <<>>, make_cmd_transmit_execute(heap))

CallGetStatus == Return("get_status", <<>>, make_cmd_get_status(heap))

CallReset(reset_type) ==
    Return("reset", [reset_type |-> reset_type], make_cmd_reset(heap, reset_type))

CallSaveNext(state) ==
    Return("save_next", [state |-> state], make_cmd_save_next(heap, state))

CallSave == Return("save", <<>>, make_cmd_save(heap))

CallSetSpeed(speed) ==
    Return("set_speed", [speed |-> speed], make_cmd_set_speed(heap, speed))

\* the caller of an encoder writes to the packet it was given: pkt[i] = v
Overwrite(k, i, v) ==
    /\ k \in 1 .. Len(returned)
    /\ returned[k].ref \notin dirty
    /\ heap[returned[k].ref][i + 1] # v
    /\ heap' = [heap EXCEPT ![returned[k].ref] = SetItem(@, i, v)]
    /\ dirty' = dirty \cup {returned[k].ref}
    /\ UNCHANGED <<returned, registry, ctrlLog, thread>>

---------------------------------------------------------------------------
(* Decoder calls *)

Idle == [pc |-> "idle", pkt |-> 0, given |-> <<>>, known |-> FALSE, cmd |-> 0,
         ans |-> "", result |-> ""]

\* pkt_to_string(heap[ref], controller) from call to return
Decode(c, ref, ans) ==
    /\ thread[c].pc = "idle"
    /\ ref \in 1 .. Len(heap)
    /\ LET r == pkt_to_string(registry, heap[ref], ans)
       IN  /\ thread' = [thread EXCEPT ![c] =
                  [pc |-> "done", pkt |-> ref, given |-> heap[ref], known |-> FALSE,
                   cmd |-> 0, ans |-> ans, result |-> r.msg]]
           /\ ctrlLog' = ctrlLog \o r.lookups
    /\ UNCHANGED <<heap, returned, dirty, registry>>

\* the same call as two steps of one of several callers: first the length
\* check and the test of cmd against the registry's keys ...
Enter(c, ref) ==
    /\ thread[c].pc = "idle"
    /\ ref \in 1 .. Len(heap)
    /\ LET pkt_bytes == heap[ref]
       IN  IF BadLength(pkt_bytes)
           THEN thread' = [thread EXCEPT ![c] =
                    [Idle EXCEPT !.pc = "done", !.pkt = ref, !.given = pkt_bytes,
                                 !.result = BadPacket(pkt_bytes).msg]]
           ELSE thread' = [thread EXCEPT ![c] =
                    [Idle EXCEPT !.pc = "dispatch", !.pkt = ref, !.given = pkt_bytes,
                                 !.cmd = Item(pkt_bytes, 1),
                                 !.known = Known(registry, Item(pkt_bytes, 1))]]
    /\ UNCHANGED <<heap, returned, dirty, registry, ctrlLog>>

\* Dispatch as a bug would have it: the parser popped from the registry
DispatchPop(c, ans) ==
    /\ thread[c].pc = "dispatch"
    /\ LET t == thread[c]
           r == IF t.known
                THEN IF t.cmd \in DOMAIN registry
                     THEN CallParser(registry[t.cmd], heap[t.pkt], ans)
                     ELSE [msg |-> "KeyError", lookups |-> <<>>]
                ELSE _parse_cmd_unknown(heap[t.pkt], ans)
       IN  /\ thread' = [thread EXCEPT ![c] =
                  [t EXCEPT !.pc = "done", !.ans = ans, !.result = r.msg]]
           /\ ctrlLog' = ctrlLog \o r.lookups
           /\ registry' = [k \in DOMAIN registry \ {t.cmd} |-> registry[k]]
    /\ UNCHANGED <<heap, returned, dirty>>

\* ... then the parser is taken from the registry and called
Dispatch(c, ans) ==
    /\ thread[c].pc = "dispatch"
    /\ LET t == thread[c]
           r == IF t.known
                THEN IF t.cmd \in DOMAIN registry
                     THEN CallParser(registry[t.cmd], heap[t.pkt], ans)
                     ELSE [msg |-> "KeyError", lookups |-> <<>>]
                ELSE _parse_cmd_unknown(heap[t.pkt], ans)
       IN  /\ thread' = [thread EXCEPT ![c] =
                  [t EXCEPT !.pc = "done", !.ans = ans, !.result = r.msg]]
           /\ ctrlLog' = ctrlLog \o r.lookups
    /\ UNCHANGED <<heap, returned, dirty, registry>>

\* an encoder call made by caller c as its call
EncodeBy(c, speed) ==
    /\ thread[c].pc = "idle"
    /\ CallSetSpeed(speed)
    /\ thread' = [thread EXCEPT ![c] =
           [Idle EXCEPT !.pc = "done", !.pkt = Len(heap) + 1, !.cmd = speed]]

---------------------------------------------------------------------------
(* SpecEncode: one encoder call on any arguments, then the decoding of    *)
(* the packet it returned.                                                 *)

InitCodec ==
    /\ returned = <<>>
    /\ dirty = {}
    /\ registry = command_parsers
    /\ ctrlLog = <<>>

InitEncode ==
    /\ InitCodec
    /\ heap = ColourPool
    /\ thread = [c \in {1} |-> Idle]

EncodeAny ==
    \/ \E block \in IntArgs, zone \in IntArgs, colour1 \in Colours, colour2 \in Colours :
          CallSetMorphColour(block, zone, colour1, colour2)
    \/ \E block \in IntArgs, zone \in IntArgs, colour \in Colours :
          CallSetBlinkColour(block, zone, colour)
    \/ \E block \in IntArgs, zone \in IntArgs, colour \in Colours :
          CallSetColour(block, zone, colour)
    \/ CallLoopBlockEnd
    \/ CallTransmitExecute
    \/ CallGetStatus
    \/ \E reset_type \in IntArgs : CallReset(reset_type)
    \/ \E state \in IntArgs : CallSaveNext(state)
    \/ CallSave
    \/ \E speed \in IntArgs : CallSetSpeed(speed)

EncodeOnce == Len(returned) = 0 /\ EncodeAny /\ UNCHANGED thread

DecodeReturned ==
    /\ Len(returned) = 1
    /\ \E ans \in Names : Decode(1, returned[1].ref, ans)

NextEncode == EncodeOnce \/ DecodeReturned

SpecEncode == InitEncode /\ [][NextEncode]_vars

---------------------------------------------------------------------------
(* SpecDecode: one decoder call on any sequence of bytes.                  *)

InitDecode ==
    /\ InitCodec
    /\ \E p \in DecodeInputs : heap = <<p>>
    /\ thread = [c \in {1} |-> Idle]

DecodeInput == \E ans \in Names : Decode(1, 1, ans)

NextDecode == DecodeInput

SpecDecode == InitDecode /\ [][NextDecode]_vars

---------------------------------------------------------------------------
(* SpecShare: several callers share one codec instance; each makes one     *)
(* call, a decoder call in two steps or an encoder call, in any order.     *)

InitShare ==
    /\ InitCodec
    /\ heap = ShareInputs
    /\ thread = [c \in 1 .. NumCallers |-> Idle]

NextShare ==
    \E c \in 1 .. NumCallers :
        \/ \E ref \in 1 .. Len(ShareInputs) : Enter(c, ref)
        \/ \E ans \in Names : Dispatch(c, ans)
        \/ \E speed \in FewArgs : EncodeBy(c, speed)

SpecShare == InitShare /\ [][NextShare]_vars

---------------------------------------------------------------------------
(* SpecAlias: a caller makes encoder calls and writes to the packets it    *)
(* was given.                                                              *)

EncodeFew ==
    \/ \E block \in FewArgs, zone \in FewArgs, colour1 \in FewColours :
          CallSetMorphColour(block, zone, colour1, 1)
    \/ \E zone \in FewArgs, colour \in FewColours : CallSetBlinkColour(1, zone, colour)
    \/ \E zone \in FewArgs, colour \in FewColours : CallSetColour(1, zone, colour)
    \/ CallLoopBlockEnd
    \/ CallTransmitExecute
    \/ CallGetStatus
    \/ \E reset_type \in FewArgs : CallReset(reset_type)
    \/ \E state \in FewArgs : CallSaveNext(state)
    \/ CallSave
    \/ \E speed \in FewArgs : CallSetSpeed(speed)

EncodeAgain == Len(returned) < MaxCalls /\ EncodeFew /\ UNCHANGED thread

WriteToPacket == \E k \in 1 .. Len(returned), i \in {0, 11} : Overwrite(k, i, 170)

NextAlias == EncodeAgain \/ WriteToPacket

SpecAlias == InitEncode /\ [][NextAlias]_vars

---------------------------------------------------------------------------
(* What the properties below are stated with *)

StartsWith(s, prefix) == Len(s) >= Len(prefix) /\ SubSeq(s, 1, Len(prefix)) = prefix

\* s is the token alone, or the token followed by ":"
HasToken(s, token) ==
    /\ StartsWith(s, token)
    /\ Len(s) > Len(token) => SubSeq(s, Len(token) + 1, Len(token) + 1) = ":"

OpcodeOf(op) ==
    CASE op = "set_morph_colour" -> 1
      [] op = "set_blink_colour" -> 2
      [] op = "set_colour" -> 3
      [] op = "loop_block_end" -> 4
      [] op = "transmit_execute" -> 5
      [] op = "get_status" -> 6
      [] op = "reset" -> 7
      [] op = "save_next" -> 8
      [] op = "save" -> 9
      [] op = "set_speed" -> 14

TokenOf ==
    (1 :> "SET_MORPH_COLOUR") @@ (2 :> "SET_BLINK_COLOUR") @@ (3 :> "SET_COLOUR")
    @@ (4 :> "LOOP_BLOCK_END") @@ (5 :> "TRANSMIT_EXECUTE") @@ (6 :> "GET_STATUS")
    @@ (7 :> "RESET") @@ (8 :> "SAVE_NEXT") @@ (9 :> "SAVE") @@ (14 :> "SET_SPEED")

ColourOps == {"set_morph_colour", "set_blink_colour", "set_colour"}

Calls == {returned[k] : k \in 1 .. Len(returned)}

\* v mod 2^24 and v mod 2^16 as big-endian bytes, v mod 2^8
Mod24Bytes(v) == <<(v \div 65536) % 256, (v \div 256) % 256, v % 256>>
Mod16Bytes(v) == <<(v \div 256) % 256, v % 256>>
Mod8Colour(c) == <<c[1] % 256, c[2] % 256, c[3] % 256>>

AllZero(pkt, i, j) == \A n \in i .. j : Item(pkt, n) = 0

Done(c) == thread[c].pc = "done"

---------------------------------------------------------------------------
\* C1: every packet an encoder returns, whatever the integer arguments, has
\* exactly 12 elements, each an integer in 0..255, element 0 being 0x02 and
\* element 1 the opcode of the command.
C1_WellFormed ==
    \A r \in Calls :
        /\ heap[r.ref] = r.pkt
        /\ Len(r.pkt) = 12
        /\ Item(r.pkt, 0) = 2
        /\ Item(r.pkt, 1) = OpcodeOf(r.op)
        /\ \A n \in 0 .. 11 : Item(r.pkt, n) \in Int /\ Item(r.pkt, n) \in Bytes

\* a negative reset type has been encoded
C1_Witness ==
    \E r \in Calls : r.op = "reset" /\ r.args.reset_type = -257 /\ Item(r.pkt, 2) = 255

\* C2: zone is packed into bytes 3..5 and speed into bytes 2..3 big-endian and
\* truncated: the bytes are those of zone mod 2^24 and of speed mod 2^16, and
\* masking before shifting gives the bytes of shifting before masking.
C2_BigEndian ==
    \A r \in Calls :
        /\ r.op \in ColourOps =>
              LET zone == r.args.zone
                  b == Slice(r.pkt, 3, 6)
              IN  /\ b = Mod24Bytes(zone)
                  /\ 65536 * b[1] + 256 * b[2] + b[3] = zone % 16777216
                  /\ b = <<BitAnd(Shr(zone, 16), 255), BitAnd(Shr(zone, 8), 255),
                           BitAnd(zone, 255)>>
        /\ r.op = "set_speed" =>
              LET speed == r.args.speed
                  b == Slice(r.pkt, 2, 4)
              IN  /\ b = Mod16Bytes(speed)
                  /\ 256 * b[1] + b[2] = speed % 65536
                  /\ b = <<BitAnd(Shr(speed, 8), 255), BitAnd(speed, 255)>>
                  /\ speed = 300 => b = <<1, 44>>

\* a negative zone wider than 24 bits has been encoded
C2_Witness ==
    \E r \in Calls :
        /\ r.op = "set_blink_colour"
        /\ r.args.zone = -16777217
        /\ Slice(r.pkt, 3, 6) = <<255, 255, 255>>

\* C3: the block, reset type and state bytes are the argument mod 256; each
\* colour channel is stored mod 256 in the order red, green, blue at bytes
\* 6..8, the second colour of a pair at bytes 9..11; the bytes next to a
\* field are what they are without it.
C3_Masking ==
    \A r \in Calls :
        /\ r.op \in ColourOps =>
              /\ Item(r.pkt, 2) = r.args.block % 256
              /\ Item(r.pkt, 1) = OpcodeOf(r.op)
              /\ Slice(r.pkt, 3, 6) = Mod24Bytes(r.args.zone)
        /\ r.op \in {"set_blink_colour", "set_colour"} =>
              Slice(r.pkt, 6, 9) = Mod8Colour(ColourPool[r.args.colour])
        /\ r.op = "set_morph_colour" =>
              /\ Slice(r.pkt, 6, 9) = Mod8Colour(ColourPool[r.args.colour1])
              /\ Slice(r.pkt, 9, 12) = Mod8Colour(ColourPool[r.args.colour2])
        /\ r.op = "reset" =>
              /\ Item(r.pkt, 2) = r.args.reset_type % 256
              /\ Item(r.pkt, 1) = 7 /\ Item(r.pkt, 3) = 0
        /\ r.op = "save_next" =>
              /\ Item(r.pkt, 2) = r.args.state % 256
              /\ Item(r.pkt, 1) = 8 /\ Item(r.pkt, 3) = 0

\* a pair of colours with negative and wide channels has been packed
C3_Witness ==
    \E r \in Calls :
        /\ r.op = "set_morph_colour"
        /\ r.args.block = -1
        /\ ColourPool[r.args.colour1] = <<-1, 256, 511>>
        /\ ColourPool[r.args.colour2] = <<4660, -256, 3>>
        /\ Slice(r.pkt, 2, 3) = <<255>>
        /\ Slice(r.pkt, 6, 12) = <<255, 0, 255, 52, 0, 3>>

\* C4: an encoder leaves every byte that is not of its fields at 0: bytes
\* 2..11 for the commands without arguments, 3..11 for reset and save_next,
\* 4..11 for set_speed, 9..11 for set_colour and set_blink_colour.
C4_UnusedZero ==
    \A r \in Calls :
        /\ r.op \in {"loop_block_end", "transmit_execute", "get_status", "save"} =>
              AllZero(r.pkt, 2, 11)
        /\ r.op \in {"reset", "save_next"} => AllZero(r.pkt, 3, 11)
        /\ r.op = "set_speed" => AllZero(r.pkt, 4, 11)
        /\ r.op \in {"set_colour", "set_blink_colour"} => AllZero(r.pkt, 9, 11)
        /\ (/\ r.op = "set_colour"
            /\ r.args.block = 1
            /\ r.args.zone = 66051
            /\ ColourPool[r.args.colour] = <<255, 0, 128>>)
           => r.pkt = <<2, 3, 1, 1, 2, 3, 255, 0, 128, 0, 0, 0>>

\* make_cmd_set_colour(1, 0x010203, (255, 0, 128)) has returned
C4_Witness ==
    \E r \in Calls :
        /\ r.op = "set_colour"
        /\ r.args = [block |-> 1, zone |-> 66051, colour |-> 1]
        /\ r.pkt = <<2, 3, 1, 1, 2, 3, 255, 0, 128, 0, 0, 0>>

\* C5: decoding a sequence whose length is not 12 gives "BAD PACKET: " and
\* the sequence as Python prints it, whatever its element 1 is; no parser
\* runs and the controller is not asked.
C5_BadPacket ==
    \A c \in DOMAIN thread :
        (Done(c) /\ Len(thread[c].given) # 12) =>
            LET t == thread[c]
            IN  /\ StartsWith(t.result, "BAD PACKET:")
                /\ t.result = "BAD PACKET: " \o StrList(t.given)
                /\ ctrlLog = <<>>
                /\ t.given = <<>> => t.result = "BAD PACKET: []"
                /\ t.given = <<2, 3, 1, 2, 3>> => t.result = "BAD PACKET: [2, 3, 1, 2, 3]"
                /\ t.given = <<2, 9, 0, 0, 0, 0, 0, 0, 0, 0, 0, 0, 0>> =>
                       t.result = "BAD PACKET: [2, 9, 0, 0, 0, 0, 0, 0, 0, 0, 0, 0, 0]"

\* a 13-byte sequence whose element 1 is a command code has been decoded
C5_Witness ==
    /\ Done(1)
    /\ thread[1].given = <<2, 9, 0, 0, 0, 0, 0, 0, 0, 0, 0, 0, 0>>
    /\ StartsWith(thread[1].result, "BAD PACKET:")

\* C6: decoding 12 bytes gives, when byte 1 is one of the ten command codes,
\* a string that starts with that command's name, and otherwise "UNKNOWN
\* COMMAND" with byte 1 in decimal; never "BAD PACKET"; byte 0 and the
\* payload do not matter.
C6_Partition ==
    \A c \in DOMAIN thread :
        (Done(c) /\ Len(thread[c].given) = 12) =>
            LET t == thread[c]
                opcode == Item(t.given, 1)
            IN  /\ ~StartsWith(t.result, "BAD PACKET")
                /\ opcode \in {1, 2, 3, 4, 5, 6, 7, 8, 9, 14} =>
                       /\ HasToken(t.result, TokenOf[opcode])
                       /\ ~StartsWith(t.result, "UNKNOWN COMMAND")
                /\ opcode \notin {1, 2, 3, 4, 5, 6, 7, 8, 9, 14} =>
                       /\ StartsWith(t.result,
                              "UNKNOWN COMMAND : " \o Str(opcode) \o " IN PACKET [")
                       /\ \A k \in DOMAIN TokenOf : ~StartsWith(t.result, TokenOf[k])
                /\ opcode = 255 => StartsWith(t.result, "UNKNOWN COMMAND : 255 IN PACKET [")
                /\ opcode = 10 => StartsWith(t.result, "UNKNOWN COMMAND : 10 IN PACKET [")
                /\ t.given = <<2, 255, 0, 0, 0, 0, 0, 0, 0, 0, 0, 0>> =>
                       t.result = "UNKNOWN COMMAND : 255 IN PACKET "
                                  \o "[2, 255, 0, 0, 0, 0, 0, 0, 0, 0, 0, 0]"

\* a packet with command code 9 and a marker other than 0x02 has been decoded
C6_Witness ==
    /\ Done(1)
    /\ Len(thread[1].given) = 12
    /\ Item(thread[1].given, 0) = 255
    /\ Item(thread[1].given, 1) = 9
    /\ thread[1].result = "SAVE"

\* what decoding the packet of call r gives: the description of r's command
\* with the arguments masked to their fields
Described(r, ans) ==
    LET a == r.args
        block == Str(a.block % 256)
        shown(c) == "(" \o hex(c[1] % 256) \o "," \o hex(c[2] % 256) \o ","
                    \o hex(c[3] % 256) \o ")"
    IN  CASE r.op = "set_morph_colour" ->
                "SET_MORPH_COLOUR: BLOCK: " \o block \o ", ZONE: " \o ans \o ", "
                \o shown(ColourPool[a.colour1]) \o "-" \o shown(ColourPool[a.colour2])
          [] r.op = "set_blink_colour" ->
                "SET_BLINK_COLOUR: BLOCK: " \o block \o ", ZONE: " \o ans \o ", "
                \o shown(ColourPool[a.colour])
          [] r.op = "set_colour" ->
                "SET_COLOUR: BLOCK: " \o block \o ", ZONE: " \o ans \o ", "
                \o shown(ColourPool[a.colour])
          [] r.op = "loop_block_end" -> "LOOP_BLOCK_END"
          [] r.op = "transmit_execute" -> "TRANSMIT_EXECUTE"
          [] r.op = "get_status" -> "GET_STATUS"
          [] r.op = "reset" -> "RESET: " \o ans
          [] r.op = "save_next" -> "SAVE_NEXT: STATE " \o ans
          [] r.op = "save" -> "SAVE"
          [] r.op = "set_speed" -> "SET_SPEED: " \o hex(a.speed % 65536)

\* the lookups that decoding the packet of call r makes
Asked(r, ans) ==
    CASE r.op \in ColourOps ->
            <<[method |-> "get_zone_name", arg |-> Mod24Bytes(r.args.zone), ans |-> ans]>>
      [] r.op = "reset" ->
            <<[method |-> "get_reset_type_name", arg |-> r.args.reset_type % 256,
               ans |-> ans]>>
      [] r.op = "save_next" ->
            <<[method |-> "get_state_name", arg |-> r.args.state % 256, ans |-> ans]>>
      [] OTHER -> <<>>

\* C7: decoding the packet an encoder returned gives the description of that
\* command, never "BAD PACKET" or "UNKNOWN COMMAND", with the arguments as
\* masked: the block mod 256 in decimal, the channels mod 256 in hex, the
\* speed mod 65536 in hex; the controller is asked for the bytes of zone mod
\* 2^24, or for the reset type or state mod 256.
C7_RoundTrip ==
    (Len(returned) = 1 /\ Done(1)) =>
        LET r == returned[1]
            t == thread[1]
        IN  /\ t.given = r.pkt
            /\ t.result = Described(r, t.ans)
            /\ ctrlLog = Asked(r, t.ans)
            /\ ~StartsWith(t.result, "BAD PACKET")
            /\ ~StartsWith(t.result, "UNKNOWN COMMAND")
            /\ (r.op = "set_speed" /\ r.args.speed = 300) => t.result = "SET_SPEED: 0x12c"
            /\ (r.op = "set_speed" /\ r.args.speed = -1) => t.result = "SET_SPEED: 0xffff"
            /\ (r.op = "set_colour" /\ r.args = [block |-> 1, zone |-> 66051, colour |-> 1]
                /\ t.ans = "Logo")
               => t.result = "SET_COLOUR: BLOCK: 1, ZONE: Logo, (0xff,0x0,0x80)"
            /\ (r.op = "set_morph_colour" /\ r.args.block = -1 /\ r.args.colour1 = 2
                /\ r.args.colour2 = 3 /\ t.ans = "Logo")
               => t.result = "SET_MORPH_COLOUR: BLOCK: 255, ZONE: Logo, "
                              \o "(0xff,0x0,0xff)-(0x34,0x0,0x3)"

\* make_cmd_set_speed(300) has been decoded
C7_Witness ==
    /\ Len(returned) = 1
    /\ Done(1)
    /\ returned[1].op = "set_speed"
    /\ returned[1].args.speed = 300
    /\ thread[1].result = "SET_SPEED: 0x12c"

\* what the call of caller c gives when nothing else runs
Alone(c) ==
    LET t == thread[c]
    IN  IF t.given = <<>> /\ t.pkt > Len(ShareInputs)
        THEN <<2, 14, (t.cmd \div 256) % 256, t.cmd % 256, 0, 0, 0, 0, 0, 0, 0, 0>>
        ELSE pkt_to_string(command_parsers, ShareInputs[t.pkt], t.ans).msg

\* C8: however the calls of several callers on one codec interleave, the
\* registry keeps mapping exactly the ten command codes to their parsers
\* and every call returns what it returns when run alone.
C8_Shared ==
    /\ DOMAIN registry = {1, 2, 3, 4, 5, 6, 7, 8, 9, 14}
    /\ registry[1] = "_parse_cmd_set_morph_colour"
    /\ registry[2] = "_parse_cmd_set_blink_colour"
    /\ registry[3] = "_parse_cmd_set_colour"
    /\ registry[4] = "_parse_cmd_loop_block_end"
    /\ registry[5] = "_parse_cmd_transmit_execute"
    /\ registry[6] = "_parse_cmd_get_status"
    /\ registry[7] = "_parse_cmd_reset"
    /\ registry[8] = "_parse_cmd_save_next"
    /\ registry[9] = "_parse_cmd_save"
    /\ registry[14] = "_parse_cmd_set_speed"
    /\ \A c \in DOMAIN thread :
          Done(c) =>
              IF thread[c].given = <<>> /\ thread[c].pkt > Len(ShareInputs)
              THEN heap[thread[c].pkt] = Alone(c)
              ELSE thread[c].result = Alone(c)

\* two callers have decoded the same packet of a known command, the call that
\* was answered second returning first
C8_Witness ==
    /\ Done(1) /\ Done(2)
    /\ thread[1].pkt = 1 /\ thread[2].pkt = 1
    /\ Len(ctrlLog) = 2
    /\ ctrlLog[1].ans # ctrlLog[2].ans
    /\ thread[1].ans = ctrlLog[2].ans

\* the lookups that decoding p makes
AskedFor(p, ans) ==
    IF Len(p) # 12 THEN <<>>
    ELSE CASE Item(p, 1) \in {1, 2, 3} ->
                  <<[method |-> "get_zone_name",
                     arg |-> <<Item(p, 3), Item(p, 4), Item(p, 5)>>, ans |-> ans]>>
           [] Item(p, 1) = 7 ->
                  <<[method |-> "get_reset_type_name", arg |-> Item(p, 2), ans |-> ans]>>
           [] Item(p, 1) = 8 ->
                  <<[method |-> "get_state_name", arg |-> Item(p, 2), ans |-> ans]>>
           [] OTHER -> <<>>

\* C9: a decoder call leaves its input as it was and asks the controller
\* once for commands 1, 2, 3 (get_zone_name of bytes 3..5 as one sequence),
\* 7 (get_reset_type_name of byte 2) and 8 (get_state_name of byte 2), and
\* not at all for any other input.
C9_Footprint ==
    /\ Len(heap) = 1
    /\ \A c \in DOMAIN thread :
          IF Done(c)
          THEN /\ heap[thread[c].pkt] = thread[c].given
               /\ ctrlLog = AskedFor(thread[c].given, thread[c].ans)
          ELSE ctrlLog = <<>>

\* a set_blink_colour packet has been decoded and the zone asked for
C9_Witness ==
    /\ Done(1)
    /\ thread[1].given = <<0, 2, 1, 44, 7, 8, 9, 10, 11, 12, 13, 14>>
    /\ ctrlLog = <<[method |-> "get_zone_name", arg |-> <<44, 7, 8>>, ans |-> "Keyboard"]>>

\* the packet that call r returns
Expected(r) ==
    LET a == r.args
        head == <<2, OpcodeOf(r.op)>>
        zero(n) == [k \in 1 .. n |-> 0]
    IN  CASE r.op = "set_morph_colour" ->
                head \o <<a.block % 256>> \o Mod24Bytes(a.zone)
                \o Mod8Colour(ColourPool[a.colour1]) \o Mod8Colour(ColourPool[a.colour2])
          [] r.op \in {"set_blink_colour", "set_colour"} ->
                head \o <<a.block % 256>> \o Mod24Bytes(a.zone)
                \o Mod8Colour(ColourPool[a.colour]) \o zero(3)
          [] r.op = "reset" -> head \o <<a.reset_type % 256>> \o zero(9)
          [] r.op = "save_next" -> head \o <<a.state % 256>> \o zero(9)
          [] r.op = "set_speed" -> head \o Mod16Bytes(a.speed) \o zero(8)
          [] OTHER -> head \o zero(10)

\* C10: every encoder call returns a list of its own: no two calls return
\* the same object, none returns a colour argument, a packet its caller has
\* not written to keeps the contents it was returned with, every call
\* returns the packet of its arguments whatever was written to earlier
\* ones, and the colour tuples stay as they were.
C10_Fresh ==
    /\ \A i, j \in 1 .. Len(returned) : i # j => returned[i].ref # returned[j].ref
    /\ \A r \in Calls :
          /\ r.ref \notin Colours
          /\ r.ref \notin dirty => heap[r.ref] = r.pkt
          /\ r.pkt = Expected(r)
    /\ \A k \in Colours : heap[k] = ColourPool[k]

\* a packet was returned, written to by its caller, and the same call made again
C10_Witness ==
    /\ Len(returned) >= 2
    /\ returned[1].op = "set_colour"
    /\ returned[2].op = returned[1].op
    /\ returned[2].args = returned[1].args
    /\ returned[1].ref \in dirty
    /\ heap[returned[1].ref] # returned[1].pkt
    /\ heap[returned[2].ref] = returned[1].pkt

===========================================================================
